---------------------------- MODULE Spec2Model ----------------------------
(***************************************************************************)
(* lctr/allo: the IPA consonant tables (src/src/graphemes.rs and           *)
(* src/src/ipa.rs), the taxonomy types of src/src/ipa.rs, and the phoneme  *)
(* registry that spec.md builds over them (build, get, filter,             *)
(* graphemesFor).  The tables and the types are translated from the        *)
(* source.  The registry has no code in the repository: its operations are *)
(* written from spec.md sections 3, 4.1 and 7.                             *)
(***************************************************************************)
EXTENDS Integers, Sequences, FiniteSets, TLC

\* Readers querying a built registry concurrently.
NumReaders == 2
\* Articulation columns a manner table may leave unattested before its last
\* pair (spec.md 4.1 names the rule, not the attested columns).
MaxSkip == 1
\* PoA values constructed in one behaviour of SpecPoA.
MaxPoAs == 2

(***************************************************************************)
(* Variants of the tables, each one slip away from the source.             *)
(***************************************************************************)
\* NASALS with the combining marks its doc comment writes (U+0325 ring
\* below, U+030A ring above, U+032A bridge below) kept in the literals.
NASALS_WithDiacritics ==
  << <<109, 805>>, <<109>>, <<625, 778>>, <<625>>, <<110, 778, 810>>,
     <<110, 810>>, <<110, 805>>, <<110>>, <<626, 778>>, <<626>>,
     <<331, 778>>, <<331>>, <<628, 805>>, <<628>> >>

\* FRICATIVES with s and z exchanged.
FRICATIVES_ZBeforeS ==
  << <<632>>, <<946>>, <<102>>, <<118>>, <<952>>, <<240>>, <<122>>, <<115>>,
     <<643>>, <<658>>, <<597>>, <<657>>, <<642>>, <<656>>, <<231>>, <<669>>,
     <<120>>, <<611>>, <<967>>, <<641>>, <<295>>, <<661>>, <<668>>, <<674>>,
     <<104>>, <<614>> >>

\* LAT_FRICATIVES with the voiced letter first.
LAT_FRICATIVES_VoicedFirst == << <<622>>, <<620>> >>

\* LAT_APPROX of module ipa with its second entry edited (U+026B for U+026D)
\* and the copy in module graphemes left alone.
LAT_APPROX_Edited == << <<108>>, <<619>>, <<654>>, <<671>> >>

(***************************************************************************)
(* The constant tables of module graphemes (src/src/graphemes.rs).         *)
(***************************************************************************)
\* NASALS: as stored: m m, U+0271 twice, n four times, ...; the doc comment writes each
\* voiceless member with a ring (U+0325 / U+030A) that the literal lacks.
graphemes_NASALS ==
  <<
     <<109>>, <<109>>, <<625>>, <<625>>, <<110>>, <<110>>, <<110>>,
     <<110>>, <<626>>, <<626>>, <<331>>, <<331>>, <<628>>, <<628>> >>

\* PLOSIVES: as stored: p b p b t d t d ...; the doc comment writes the second and third
\* pair with a dental bridge (U+032A) that the literals lack.
graphemes_PLOSIVES ==
  <<
     <<112>>, <<98>>, <<112>>, <<98>>, <<116>>, <<100>>, <<116>>, <<100>>,
     <<648>>, <<598>>, <<99>>, <<607>>, <<107>>, <<609>>, <<113>>, <<610>>,
     <<673>>, <<660>> >>

\* TRILLS: seven entries; r (U+0072) twice and U+0280 twice, the doc comment writes
\* the first of each with U+0325, and entry 4 as U+027D U+0361 r.
graphemes_TRILLS ==
  <<
     <<665>>, <<114>>, <<114>>, <<637>>, <<640>>, <<640>>, <<7449>> >>

\* TAPS: five entries; U+2C71 twice and U+027E twice (doc comment: U+031F, U+0325).
graphemes_TAPS ==
  <<
     <<11377>>, <<11377>>, <<638>>, <<638>>, <<637>> >>

\* FRICATIVES: 26 distinct letters; s z U+0283 U+0292 U+0255 U+0291 U+0282 U+0290 are
\* entries 7..14 (1-based).
graphemes_FRICATIVES ==
  <<
     <<632>>, <<946>>, <<102>>, <<118>>, <<952>>, <<240>>, <<115>>,
     <<122>>, <<643>>, <<658>>, <<597>>, <<657>>, <<642>>, <<656>>,
     <<231>>, <<669>>, <<120>>, <<611>>, <<967>>, <<641>>, <<295>>,
     <<661>>, <<668>>, <<674>>, <<104>>, <<614>> >>

\* LAT_FRICATIVES: U+026C, U+026E.
graphemes_LAT_FRICATIVES ==
  <<
     <<620>>, <<622>> >>

\* LAT_APPROX: l, U+026D, U+028E, U+029F.
graphemes_LAT_APPROX ==
  <<
     <<108>>, <<621>>, <<654>>, <<671>> >>

\* APPROX: six entries; j (U+006A) twice, the doc comment writes the first as j U+030A.
graphemes_APPROX ==
  <<
     <<651>>, <<633>>, <<635>>, <<106>>, <<106>>, <<624>> >>

\* AFFRICATES: 20 entries, each the single plosive letter of the digraph its doc comment
\* lists (pf -> p, bv -> b, ...).
graphemes_AFFRICATES ==
  <<
     <<112>>, <<98>>, <<112>>, <<98>>, <<116>>, <<100>>, <<116>>, <<100>>,
     <<116>>, <<100>>, <<116>>, <<100>>, <<648>>, <<598>>, <<99>>, <<99>>,
     <<107>>, <<609>>, <<113>>, <<610>> >>

(***************************************************************************)
(* The constant tables of module ipa (src/src/ipa.rs).                     *)
(***************************************************************************)
\* NASALS: as stored: m m, U+0271 twice, n four times, ...; the doc comment writes each
\* voiceless member with a ring (U+0325 / U+030A) that the literal lacks.
ipa_NASALS ==
  <<
     <<109>>, <<109>>, <<625>>, <<625>>, <<110>>, <<110>>, <<110>>,
     <<110>>, <<626>>, <<626>>, <<331>>, <<331>>, <<628>>, <<628>> >>

\* PLOSIVES: as stored: p b p b t d t d ...; the doc comment writes the second and third
\* pair with a dental bridge (U+032A) that the literals lack.
ipa_PLOSIVES ==
  <<
     <<112>>, <<98>>, <<112>>, <<98>>, <<116>>, <<100>>, <<116>>, <<100>>,
     <<648>>, <<598>>, <<99>>, <<607>>, <<107>>, <<609>>, <<113>>, <<610>>,
     <<673>>, <<660>> >>

\* TRILLS: seven entries; r (U+0072) twice and U+0280 twice, the doc comment writes
\* the first of each with U+0325, and entry 4 as U+027D U+0361 r.
ipa_TRILLS ==
  <<
     <<665>>, <<114>>, <<114>>, <<637>>, <<640>>, <<640>>, <<7449>> >>

\* TAPS: five entries; U+2C71 twice and U+027E twice (doc comment: U+031F, U+0325).
ipa_TAPS ==
  <<
     <<11377>>, <<11377>>, <<638>>, <<638>>, <<637>> >>

\* FRICATIVES: 26 distinct letters; s z U+0283 U+0292 U+0255 U+0291 U+0282 U+0290 are
\* entries 7..14 (1-based).
ipa_FRICATIVES ==
  <<
     <<632>>, <<946>>, <<102>>, <<118>>, <<952>>, <<240>>, <<115>>,
     <<122>>, <<643>>, <<658>>, <<597>>, <<657>>, <<642>>, <<656>>,
     <<231>>, <<669>>, <<120>>, <<611>>, <<967>>, <<641>>, <<295>>,
     <<661>>, <<668>>, <<674>>, <<104>>, <<614>> >>

\* LAT_FRICATIVES: U+026C, U+026E.
ipa_LAT_FRICATIVES ==
  <<
     <<620>>, <<622>> >>

\* LAT_APPROX: l, U+026D, U+028E, U+029F.
ipa_LAT_APPROX ==
  <<
     <<108>>, <<621>>, <<654>>, <<671>> >>

\* APPROX: six entries; j (U+006A) twice, the doc comment writes the first as j U+030A.
ipa_APPROX ==
  <<
     <<651>>, <<633>>, <<635>>, <<106>>, <<106>>, <<624>> >>

\* AFFRICATES: 20 entries, each the single plosive letter of the digraph its doc comment
\* lists (pf -> p, bv -> b, ...).
ipa_AFFRICATES ==
  <<
     <<112>>, <<98>>, <<112>>, <<98>>, <<116>>, <<100>>, <<116>>, <<100>>,
     <<116>>, <<100>>, <<116>>, <<100>>, <<648>>, <<598>>, <<99>>, <<99>>,
     <<107>>, <<609>>, <<113>>, <<610>> >>

(***************************************************************************)
(* The taxonomy of src/src/ipa.rs.                                         *)
(***************************************************************************)
\* enum Place; the second variant is spelled Corona in the source.
Place == {"Labial", "Corona", "Dorsal", "Laryngeal"}

\* enum Articulation, in declaration order: the canonical column order.
Articulation ==
  << "Bilabial", "Labiodental", "Linguolabial", "Dental", "Alveolar",
     "Postalveolar", "Retroflex", "Palatal", "Velar", "Uvular",
     "Pharyngeal", "Epiglottal", "Glottal" >>

ArticulationSet == {Articulation[i] : i \in 1..Len(Articulation)}

\* The column number of an articulation (derive(PartialOrd, Ord)).
Column(a) == CHOOSE i \in 1..Len(Articulation) : Articulation[i] = a

\* struct PoA { place, articulation }: two plain fields and no constructor,
\* so every pair of a Place and an Articulation is a value of the type.
PoA == [place : Place, articulation : ArticulationSet]

\* enum Manner; Fricative carries the sibilant flag.  A variant without a
\* payload is given sibilant = FALSE so that all values have one shape.
MannerTag ==
  { "Nasal", "Plosive", "Fricative", "Approximant", "TapFlap", "Trill",
    "LatFric", "LatApprox", "LatTapFlap" }

Manner ==
  {[tag |-> t, sibilant |-> FALSE] : t \in MannerTag}
    \cup {[tag |-> "Fricative", sibilant |-> TRUE]}

\* enum Phonation.
Phonation == {"Voiced", "Voiceless"}

(***************************************************************************)
(* The registry's construction data (spec.md 3 and 4.1).                   *)
(***************************************************************************)
\* The eight simple-manner tables in registration order: the order in which
\* the source declares them and spec.md 4.1 lists them.
TableOrder ==
  << "Nasal", "Plosive", "Trill", "TapFlap", "Fricative", "LatFric",
     "LatApprox", "Approximant" >>

AllTables == {TableOrder[i] : i \in 1..Len(TableOrder)}

Modules == {"graphemes", "ipa"}

\* The table of manner tag in module mod.
TableOf(mod, tag) ==
  CASE tag = "Nasal"       -> IF mod = "ipa" THEN ipa_NASALS ELSE graphemes_NASALS
    [] tag = "Plosive"     -> IF mod = "ipa" THEN ipa_PLOSIVES ELSE graphemes_PLOSIVES
    [] tag = "Trill"       -> IF mod = "ipa" THEN ipa_TRILLS ELSE graphemes_TRILLS
    [] tag = "TapFlap"     -> IF mod = "ipa" THEN ipa_TAPS ELSE graphemes_TAPS
    [] tag = "Fricative"   -> IF mod = "ipa" THEN ipa_FRICATIVES ELSE graphemes_FRICATIVES
    [] tag = "LatFric"     -> IF mod = "ipa" THEN ipa_LAT_FRICATIVES
                                             ELSE graphemes_LAT_FRICATIVES
    [] tag = "LatApprox"   -> IF mod = "ipa" THEN ipa_LAT_APPROX ELSE graphemes_LAT_APPROX
    [] tag = "Approximant" -> IF mod = "ipa" THEN ipa_APPROX ELSE graphemes_APPROX

AffricatesOf(mod) == IF mod = "ipa" THEN ipa_AFFRICATES ELSE graphemes_AFFRICATES

\* spec.md 3: the fixed many-to-one table from articulation to place.
placeOf(a) ==
  CASE Column(a) <= 3  -> "Labial"
    [] Column(a) <= 7  -> "Corona"
    [] Column(a) <= 10 -> "Dorsal"
    [] OTHER           -> "Laryngeal"

\* spec.md 3: the sibilant fricatives s z U+0283 U+0292 U+0255 U+0291
\* U+0282 U+0290.
Sibilants ==
  { <<115>>, <<122>>, <<643>>, <<658>>, <<597>>, <<657>>, <<642>>, <<656>> }

\* The Manner value of a table entry.
MannerOf(tag, g) ==
  [tag |-> tag, sibilant |-> (tag = "Fricative" /\ g \in Sibilants)]

\* spec.md 4.1: Voiceless at even (0-based) indices, Voiced at odd ones.  i
\* is the 1-based position, so the 0-based index is i - 1.
PhonationAt(i) == IF (i - 1) % 2 = 0 THEN "Voiceless" ELSE "Voiced"

\* The pair (0-based k, here 1-based) that position i belongs to.
PairOf(i) == (i + 1) \div 2

\* The number of pairs of a table; a last unpaired entry counts as one.
Pairs(tab) == (Len(tab) + 1) \div 2

RECURSIVE SortedSeq(_)
SortedSeq(S) ==
  IF S = {} THEN <<>>
  ELSE LET m == CHOOSE x \in S : \A y \in S : x <= y
       IN  <<m>> \o SortedSeq(S \ {m})

\* spec.md 4.1: the Nth pair takes the Nth attested column of the canonical
\* order.  Which columns a manner attests is not given, so every strictly
\* increasing choice that skips at most MaxSkip columns is allowed.
ColumnChoices(n) ==
  LET top == IF n + MaxSkip > Len(Articulation) THEN Len(Articulation)
             ELSE n + MaxSkip
  IN  {SortedSeq(S) : S \in {T \in SUBSET (1..top) : Cardinality(T) = n}}

\* The PhonemeEntry build makes of position i of a table.
EntryOf(tag, tab, cols, i) ==
  LET a == Articulation[cols[PairOf(i)]]
  IN  [ grapheme  |-> tab[i],
        poa       |-> [place |-> placeOf(a), articulation |-> a],
        manner    |-> MannerOf(tag, tab[i]),
        phonation |-> PhonationAt(i) ]

\* spec.md 4.1 and 7: registering an entry whose grapheme is already
\* registered under a different feature vector fails the construction; acc
\* is [ok, reg, dup].
AddEntry(acc, e) ==
  IF ~acc.ok THEN acc
  ELSE LET same == {i \in 1..Len(acc.reg) : acc.reg[i].grapheme = e.grapheme}
       IN  IF same = {} THEN [acc EXCEPT !.reg = Append(@, e)]
           ELSE IF \A i \in same : acc.reg[i] = e THEN acc
           ELSE [ok |-> FALSE, reg |-> acc.reg, dup |-> e.grapheme]

RECURSIVE AddTable(_, _, _, _, _)
AddTable(acc, tag, tab, cols, i) ==
  IF i > Len(tab) THEN acc
  ELSE AddTable(AddEntry(acc, EntryOf(tag, tab, cols, i)), tag, tab, cols, i + 1)

(***************************************************************************)
(* Lookup and query (spec.md 4.1).  An optional value is a sequence of     *)
(* length 0 or 1.                                                          *)
(***************************************************************************)
\* get that compares base letters only, ignoring what follows the first
\* code point.
GetEntry_BaseLetter(reg, g) ==
  LET hits == {i \in 1..Len(reg) :
                 g # <<>> /\ reg[i].grapheme # <<>> /\ reg[i].grapheme[1] = g[1]}
  IN  IF hits = {} THEN <<>>
      ELSE <<reg[CHOOSE i \in hits : \A j \in hits : i <= j]>>

\* get: exact match of the code-point sequence.
GetEntry(reg, g) ==
  LET hits == {i \in 1..Len(reg) : reg[i].grapheme = g}
  IN  IF hits = {} THEN <<>>
      ELSE <<reg[CHOOSE i \in hits : \A j \in hits : i <= j]>>

\* A predicate is [place, articulation, manner, phonation], each optional;
\* an absent field matches anything.
Matches(e, pred) ==
  /\ pred.place = <<>> \/ pred.place[1] = e.poa.place
  /\ pred.articulation = <<>> \/ pred.articulation[1] = e.poa.articulation
  /\ pred.manner = <<>> \/ pred.manner[1] = e.manner
  /\ pred.phonation = <<>> \/ pred.phonation[1] = e.phonation

\* filter that yields the matches last-registered first.
Filter_Reversed(reg, pred) ==
  LET f == SelectSeq(reg, LAMBDA e : Matches(e, pred))
  IN  [i \in 1..Len(f) |-> f[Len(f) + 1 - i]]

\* filter: the matching entries in registration order.
Filter(reg, pred) == SelectSeq(reg, LAMBDA e : Matches(e, pred))

AnyPred ==
  [place |-> <<>>, articulation |-> <<>>, manner |-> <<>>, phonation |-> <<>>]

\* graphemesFor: filter fixing only the manner, projected to the graphemes.
GraphemesForManner(reg, m) ==
  LET f == Filter(reg, [AnyPred EXCEPT !.manner = <<m>>])
  IN  [i \in 1..Len(f) |-> f[i].grapheme]

(***************************************************************************)
(* The arguments the readers call with.                                    *)
(***************************************************************************)
\* U+026C, U+026E, U+026C followed by a combining ring below (U+0325), and
\* the double articulation k U+035C p.
Probes == { <<620>>, <<622>>, <<620, 805>>, <<107, 860, 112>> }

SibilantPred ==
  [AnyPred EXCEPT !.manner = <<[tag |-> "Fricative", sibilant |-> TRUE]>>]

NasalPred == [AnyPred EXCEPT !.manner = <<[tag |-> "Nasal", sibilant |-> FALSE]>>]

VoicelessPred == [AnyPred EXCEPT !.phonation = <<"Voiceless">>]

Preds == {SibilantPred, NasalPred, VoicelessPred}

QueryManners == {[tag |-> "LatFric", sibilant |-> FALSE]}

Readers == 1..NumReaders

Idle == [op |-> "idle", arg |-> <<>>, res |-> <<>>]

(***************************************************************************)
(* The state.                                                              *)
(***************************************************************************)
VARIABLES
  module,    \* the module whose tables build reads
  sel,       \* the manner tables this build is run over; build() is AllTables
  next,      \* position in TableOrder of the table build takes up next
  status,    \* "building", "ready" (build returned a registry) or "failed"
  err,       \* the BuildError build returned, if any
  registry,  \* the entries in registration order
  returned,  \* the registry as build returned it, if it returned one
  readers,   \* each reader's last call: [op, arg, res]
  poas       \* the PoA values constructed so far

vars == <<module, sel, next, status, err, registry, returned, readers, poas>>

Init ==
  /\ module \in Modules
  /\ sel \in SUBSET AllTables
  /\ next = 1
  /\ status = "building"
  /\ err = <<>>
  /\ registry = <<>>
  /\ returned = <<>>
  /\ readers = [r \in Readers |-> Idle]
  /\ poas = {}

\* One iteration of build: the next table of TableOrder, skipped when it is
\* not selected, else registered entry by entry.  A collision ends build
\* with DuplicateGrapheme and no registry; after the last table build
\* returns the registry.
RegisterTable ==
  /\ status = "building"
  /\ next <= Len(TableOrder)
  /\ LET tag == TableOrder[next]
         tab == TableOf(module, tag)
     IN  \E cols \in ColumnChoices(Pairs(tab)) :
           LET acc == IF tag \in sel
                      THEN AddTable([ok |-> TRUE, reg |-> registry, dup |-> <<>>],
                                    tag, tab, cols, 1)
                      ELSE [ok |-> TRUE, reg |-> registry, dup |-> <<>>]
           IN  IF acc.ok
               THEN /\ registry' = acc.reg
                    /\ next' = next + 1
                    /\ status' = IF next = Len(TableOrder) THEN "ready" ELSE "building"
                    /\ returned' = IF next = Len(TableOrder) THEN <<acc.reg>> ELSE <<>>
                    /\ err' = <<>>
               ELSE /\ registry' = <<>>
                    /\ next' = next
                    /\ status' = "failed"
                    /\ returned' = <<>>
                    /\ err' = <<[kind |-> "DuplicateGrapheme", grapheme |-> acc.dup]>>
  /\ UNCHANGED <<module, sel, readers, poas>>

\* get(g) by reader r.
Get(r, g) ==
  /\ status = "ready"
  /\ readers' = [readers EXCEPT ![r] =
                   [op |-> "get", arg |-> g, res |-> GetEntry(registry, g)]]
  /\ UNCHANGED <<module, sel, next, status, err, registry, returned, poas>>

\* filter(pred) by reader r, scanned to its end.
FilterCall(r, pred) ==
  /\ status = "ready"
  /\ readers' = [readers EXCEPT ![r] =
                   [op |-> "filter", arg |-> pred, res |-> Filter(registry, pred)]]
  /\ UNCHANGED <<module, sel, next, status, err, registry, returned, poas>>

\* graphemesFor(m) by reader r.
GraphemesFor(r, m) ==
  /\ status = "ready"
  /\ readers' = [readers EXCEPT ![r] =
                   [op |-> "graphemesFor", arg |-> m,
                    res |-> GraphemesForManner(registry, m)]]
  /\ UNCHANGED <<module, sel, next, status, err, registry, returned, poas>>

\* A PoA value written as a struct literal: the fields are stored as given.
MakePoA(p, a) ==
  /\ Cardinality(poas) < MaxPoAs
  /\ poas' = poas \cup {[place |-> p, articulation |-> a]}
  /\ UNCHANGED <<module, sel, next, status, err, registry, returned, readers>>

Next ==
  \/ RegisterTable
  \/ \E r \in Readers, g \in Probes : Get(r, g)
  \/ \E r \in Readers, pred \in Preds : FilterCall(r, pred)
  \/ \E r \in Readers, m \in QueryManners : GraphemesFor(r, m)

Spec == Init /\ [][Next]_vars

\* The type PoA on its own: values of it are constructed, nothing is built.
InitPoA ==
  /\ module = "ipa"
  /\ sel = {}
  /\ next = 1
  /\ status = "building"
  /\ err = <<>>
  /\ registry = <<>>
  /\ returned = <<>>
  /\ readers = [r \in Readers |-> Idle]
  /\ poas = {}

NextPoA == \E p \in Place, a \in ArticulationSet : MakePoA(p, a)

SpecPoA == InitPoA /\ [][NextPoA]_vars

TypeOK ==
  /\ module \in Modules
  /\ sel \subseteq AllTables
  /\ next \in 1..(Len(TableOrder) + 1)
  /\ status \in {"building", "ready", "failed"}
  /\ Len(err) <= 1
  /\ \A i \in 1..Len(registry) :
       /\ registry[i].poa \in PoA
       /\ registry[i].manner \in Manner
       /\ registry[i].phonation \in Phonation
  /\ poas \subseteq PoA

(***************************************************************************)
(* Helpers of the properties.                                              *)
(***************************************************************************)
\* The strings of the selected tables among the first n of TableOrder, in
\* registration order, as module mod stores them.
RECURSIVE Flat(_, _, _)
Flat(mod, s, n) ==
  IF n = 0 THEN <<>>
  ELSE Flat(mod, s, n - 1)
         \o (IF TableOrder[n] \in s THEN TableOf(mod, TableOrder[n]) ELSE <<>>)

\* The tables build has registered in full.
Registered(mod) == Flat(mod, sel, next - 1)

\* The tables build has taken up, the rejected one included.
TakenUp(mod) ==
  Flat(mod, sel, IF status = "failed" THEN next ELSE next - 1)

\* The first position of string g in q, 0 when q does not hold it.
PositionIn(q, g) ==
  IF \E a \in 1..Len(q) : q[a] = g
  THEN CHOOSE a \in 1..Len(q) : q[a] = g /\ \A b \in 1..(a - 1) : q[b] # g
  ELSE 0

Distinct(q) == \A i, j \in 1..Len(q) : i # j => q[i] # q[j]

GraphemesIn(q) == [i \in 1..Len(q) |-> q[i].grapheme]

Finished == status # "building"

LateralFricative == [tag |-> "LatFric", sibilant |-> FALSE]

SibilantFricative == [tag |-> "Fricative", sibilant |-> TRUE]

\* s z U+0283 U+0292 U+0255 U+0291 U+0282 U+0290, in the order of the claim.
SibilantGraphemes ==
  << <<115>>, <<122>>, <<643>>, <<658>>, <<597>>, <<657>>, <<642>>, <<656>> >>

\* The 18 other letters of FRICATIVES, in the order of the claim.
NonSibilantGraphemes ==
  << <<632>>, <<946>>, <<102>>, <<118>>, <<952>>, <<240>>, <<231>>, <<669>>,
     <<120>>, <<611>>, <<967>>, <<641>>, <<295>>, <<661>>, <<668>>, <<674>>,
     <<104>>, <<614>> >>

Range(q) == {q[i] : i \in 1..Len(q)}

C5_PlaceArticulationConsistent ==
  /\ \A i \in 1..Len(registry) :
       registry[i].poa.place = placeOf(registry[i].poa.articulation)
  /\ \A p \in poas : p.place = placeOf(p.articulation)
  /\ \A p, q \in poas : p.articulation = q.articulation => p.place = q.place

C9_PairedTables ==
  \A n \in 1..Len(TableOrder) :
    (/\ TableOrder[n] \in sel
     /\ n < next \/ (n = next /\ status = "failed")) =>
      LET tab == TableOf(module, TableOrder[n])
          off == Len(Flat(module, sel, n - 1))
      IN  /\ status # "failed"
          /\ Len(tab) % 2 = 0
          /\ \A i \in 1..Len(tab) :
               /\ registry[off + i].grapheme = tab[i]
               /\ registry[off + i].phonation = PhonationAt(i)
               /\ (i % 2 = 0) =>
                    registry[off + i].poa = registry[off + i - 1].poa
               /\ (i > 2) =>
                    Column(registry[off + i].poa.articulation)
                      > Column(registry[off + i - 2].poa.articulation)

(***************************************************************************)
(* C10.  Modules graphemes and ipa hold the same nine tables, string for   *)
(* string, so a build reads the same entries from either.                  *)
(***************************************************************************)
C10_ModulesAgree ==
  /\ \A tag \in AllTables : TableOf("graphemes", tag) = TableOf("ipa", tag)
  /\ AffricatesOf("graphemes") = AffricatesOf("ipa")
  /\ \A mod \in Modules :
       /\ status # "failed" => GraphemesIn(registry) = Registered(mod)
       /\ status = "failed" => err[1].grapheme \in Range(TakenUp(mod))

C10_Witness ==
  /\ module = "ipa"
  /\ status = "ready"
  /\ Len(registry) = 32

============================================================================
